---- MODULE Spec2Model ----
(***************************************************************************)
(* Exporter evaluation of onnx_diagnostic.torch_export_patches.eval:       *)
(* run_exporter (one model case, one exporter, static or dynamic shapes)   *)
(* and evaluation, the driver that loops over case x dynamic x exporter.   *)
(* External calls (the exporter, onnxruntime, the eager model, max_diff)   *)
(* are the environment: each either returns or raises an exception.        *)
(***************************************************************************)
EXTENDS Integers, Sequences, FiniteSets, TLC

\* ------------------------------------------------------------------ bounds
\* greatest number of example inputs (_inputs) a model case declares
MaxExamples == 2
\* greatest number of inputs the exported onnx graph declares
MaxNames == 2
\* greatest number of top-level positional inputs of one example
MaxArgs == 2
\* greatest number of leaves of one example once flattened
MaxLeaves == 3
\* greatest number of combinations one call to evaluation loops over
MaxLoop == 2

\* ------------------------------------------------------------- data model
\* str(e) of the exceptions raised by the external calls
Messages == {"boom", "bang"}

\* a float: NaN compares false with everything, as in Python
Float(m) == [nan |-> FALSE, milli |-> m]
NaN == [nan |-> TRUE, milli |-> 0]
FloatLt(a, b) == ~a.nan /\ ~b.nan /\ a.milli < b.milli
FloatGe(a, b) == ~a.nan /\ ~b.nan /\ a.milli >= b.milli

\* the threshold 0.1 of run_exporter, in thousandths
Threshold == Float(100)

\* absolute differences max_diff may compute, in thousandths
AbsValues == {Float(99), Float(100), Float(250), NaN}
\* the relative difference max_diff reports with an absolute difference
RelOf(a) == IF a.nan THEN NaN ELSE Float(2 * a.milli)
\* the dictionaries max_diff returns
MaxDiffResults == {[abs |-> a, rel |-> RelOf(a), n |-> 1, sum |-> a] : a \in AbsValues}

\* a dictionary without keys
EmptyDict == [k \in {} |-> 0]
\* dict.update
Update(r, s) == [k \in DOMAIN r \cup DOMAIN s |-> IF k \in DOMAIN s THEN s[k] ELSE r[k]]
\* del d[k]
Del(r, k) == [j \in DOMAIN r \ {k} |-> r[j]]

\* str.startswith
StartsWith(s, p) == Len(s) >= Len(p) /\ SubSeq(s, 1, Len(p)) = p

\* the exporter names _make_exporter_export knows
ExportVariants == {"export-strict", "export-strict-dec", "export-strict-decall",
                   "export-nostrict", "export-nostrict-dec", "export-nostrict-decall",
                   "export-tracing"}
\* the exporter names _make_exporter_onnx knows
OnnxVariant(e) == StartsWith(e, "custom") \/ e \in {"dynamo", "dynamo-ir"}
KnownExporter(e) == IF StartsWith(e, "export-") THEN e \in ExportVariants ELSE OnnxVariant(e)
\* the exporter names run_exporter is called with
ExporterNames == ExportVariants \cup {"custom", "custom-strict-decall", "dynamo", "dynamo-ir",
                                      "export-unknown", "unknown"}

\* the names of the model cases, in the order of str
CaseNames == <<"CaseA", "CaseB", "CaseC">>
\* the model cases run_exporter is called with: the class name, the number
\* of example inputs in _inputs, len(inputs[0]), the number of leaves of
\* inputs[0] once flattened, and whether forward modifies its inputs in place
CaseClasses == {c \in [name : {CaseNames[1]}, inputs : 1..MaxExamples,
                       args : 1..MaxArgs, leaves : 1..MaxLeaves,
                       mutates : BOOLEAN] : c.args <= c.leaves}
\* the model cases discover() finds
ModelCases == {[name |-> "CaseA", inputs |-> 1, args |-> 1, leaves |-> 1, mutates |-> FALSE],
               [name |-> "CaseB", inputs |-> 2, args |-> 2, leaves |-> 2, mutates |-> FALSE],
               [name |-> "CaseC", inputs |-> 1, args |-> 1, leaves |-> 2, mutates |-> TRUE]}

\* mutant: the index counted from 1
StepNameFromOne(prefix, index) == prefix \o "." \o ToString(index + 1)

\* f"run.{index}" and the like
StepName(prefix, index) == prefix \o "." \o ToString(index)

VARIABLES
    quiet,        \* the quiet flag of the call
    exporter,     \* run_exporter: exporter
    cls_model,    \* run_exporter: cls_model
    dynamic,      \* run_exporter: dynamic
    pc,           \* the statement run_exporter or evaluation is at
    base,         \* run_exporter: base
    onx,          \* run_exporter: onx, the graph, its input names and dims
    disc,         \* run_exporter: disc
    index,        \* run_exporter: index of the re-check loop
    calls,        \* history: the external calls of this run_exporter, with
                  \* their outcomes
    scores,       \* history: what max_diff returned, first for the primary
                  \* run, then for each index of the re-check
    res,          \* the dictionary run_exporter returned
    exc,          \* the exception that left run_exporter or evaluation
    args,         \* evaluation: exporters, dynamic, cases
    loop,         \* evaluation: loop
    k,            \* evaluation: position in loop
    obs,          \* evaluation: obs
    inputs,       \* cls_model._inputs of every case: for each example,
                  \* whether its tensors were modified in place
    sys,          \* sys.stdout and sys.stderr
    fn,           \* the function called on its own, and the statement it is at
    arg,          \* its arguments
    ret           \* its locals, then what it returned or raised

vars == <<quiet, exporter, cls_model, dynamic, pc, base, onx, disc, index,
          calls, scores, res, exc, args, loop, k, obs, inputs, sys, fn, arg, ret>>
unitVars == <<sys, fn, arg, ret>>
runVars == <<base, onx, disc, index, calls, scores>>
evalVars == <<args, loop, k, obs>>

NoOnx == [none |-> TRUE, names |-> 0, dims |-> FALSE]
NoExc == [type |-> "", step |-> ""]

\* ------------------------------------------------- environment (externals)
\* an external call returns, or raises an exception e with str(e) = msg
Returns == [ok |-> TRUE, msg |-> ""]
Raises == {[ok |-> FALSE, msg |-> m] : m \in Messages}
Outcomes == {Returns} \cup Raises
\* the graphs a to-onnx exporter may produce: the number of declared inputs
\* and whether one of them has a dim_param
Graphs == [none : {FALSE}, names : 1..MaxNames, dims : BOOLEAN]

\* an entry of calls
Call(name, out) == [name |-> name, ok |-> out.ok, msg |-> out.msg]

\* ------------------------------------------------------ run_exporter, pure
\* mutant: the handler also echoes base, as the later stages do
FailedExportWithBase(msg) ==
    [error |-> msg, success |-> 0, error_step |-> "export",
     inputs |-> "inputs", model |-> "model", dynamic_shapes |-> "None"]

\* the exception handler shared by every exporter variant
FailedExport(msg) == [error |-> msg, success |-> 0, error_step |-> "export"]

\* _make_exporter_export: what the call gives for the outcome of the export
MakeExporterExport(e, out, q) ==
    IF e \in ExportVariants
    THEN IF out.ok THEN [kind |-> "artifact"]
         ELSE IF ~q THEN [kind |-> "raise", type |-> "Exception", step |-> "export"]
         ELSE [kind |-> "dict", dict |-> FailedExport(out.msg)]
    ELSE [kind |-> "raise", type |-> "AssertionError", step |-> "unexpected exporter"]

\* mutant: in quiet mode a failed export is not returned, the stages go on
MakeExporterOnnxGoesOn(e, out, q) ==
    IF OnnxVariant(e)
    THEN IF out.ok \/ q THEN [kind |-> "artifact"]
         ELSE [kind |-> "raise", type |-> "RuntimeError", step |-> "export"]
    ELSE [kind |-> "raise", type |-> "AssertionError", step |-> "unexpected exporter"]

\* _make_exporter_onnx: what the call gives for the outcome of the export
MakeExporterOnnx(e, out, q) ==
    IF OnnxVariant(e)
    THEN IF out.ok THEN [kind |-> "artifact"]
         ELSE IF ~q THEN [kind |-> "raise", type |-> "RuntimeError", step |-> "export"]
         ELSE [kind |-> "dict", dict |-> FailedExport(out.msg)]
    ELSE [kind |-> "raise", type |-> "AssertionError", step |-> "unexpected exporter"]

\* the builder the to-onnx variants return with the graph
BuilderOf(e) == IF StartsWith(e, "custom") THEN "builder" ELSE "None"

\* the callable run_exporter executes: the exported module or the session
ModOf(e) == IF StartsWith(e, "export-") THEN "module" ELSE "session"

\* flats: the first example, flattened when the graph has more names
Flats(names, l) == IF names > l.args THEN l.leaves ELSE l.args

\* mutant: only a graph with too many names is a mismatch
InputMismatchOnlyMore(names, flats) == names > flats

\* the test of the input mismatch
InputMismatch(names, flats) == names # flats

\* _make_feeds: the number of feeds bound, or a RuntimeError
MakeFeeds(names, l) ==
    IF names = l.args THEN [ok |-> TRUE, feeds |-> names]
    ELSE IF names > l.args
         THEN [ok |-> TRUE, feeds |-> IF names < l.leaves THEN names ELSE l.leaves]
         ELSE [ok |-> FALSE, feeds |-> 0]

\* the dictionary of a stage that failed in quiet mode
Failed(msg, step) == [error |-> msg, success |-> 0, error_step |-> step]

\* the classification of the primary discrepancy
Classify(d, cls, mod, graph) ==
    LET d0 == Del(Del(d, "n"), "sum")
        d1 == Update(d0, [success |-> IF FloatLt(d0.abs, Threshold) THEN 1 ELSE 0,
                          model_cls |-> cls.name,
                          exported |-> mod,
                          onnx |-> IF graph.none THEN "None" ELSE "onx"])
    IN  IF FloatGe(d1.abs, Threshold)
        THEN Update(d1, [error |-> "diff.0", error_step |-> "diff.0"])
        ELSE [d1 EXCEPT !.success = 1]

\* mutant: the test of ds inverted
NoDynamicShapeInverted(dyn, graph) == dyn /\ ~graph.none /\ graph.dims

\* no declared input of the graph has a dim_param although dynamic was asked
NoDynamicShape(dyn, graph) == dyn /\ ~graph.none /\ ~graph.dims

\* mutant: the loop over the examples is never entered
RecheckNever(dyn, cls) == FALSE

\* mutant: the loop over the examples does not look at dynamic
RecheckWhenSeveral(dyn, cls) == cls.inputs > 1

\* the re-check loop runs
Recheck(dyn, cls) == dyn /\ cls.inputs > 1

\* mutant: a failing example does not downgrade success
MergeRecheckKeepsSuccess(dc, d, i) ==
    LET d0 == Del(Del(d, "n"), "sum")
    IN  IF FloatGe(d0.abs, Threshold)
        THEN Update(dc, Update(d0, [error |-> StepName("diff", i),
                                    error_step |-> StepName("diff", i)]))
        ELSE dc

\* mutant: a failing example is tagged but its discrepancy is not merged
MergeRecheckKeepsFields(dc, d, i) ==
    LET d0 == Del(Del(d, "n"), "sum")
    IN  IF FloatGe(d0.abs, Threshold)
        THEN Update(dc, [error |-> StepName("diff", i),
                         error_step |-> StepName("diff", i),
                         success |-> 0])
        ELSE dc

\* mutant: the discrepancy of a failing example is merged only when it is
\* the greatest so far
MergeRecheckKeepsMax(dc, d, i) ==
    LET d0 == Del(Del(d, "n"), "sum")
        tagged == Update(dc, [error |-> StepName("diff", i),
                              error_step |-> StepName("diff", i),
                              success |-> 0])
    IN  IF FloatGe(d0.abs, Threshold)
        THEN IF FloatGe(dc.abs, d0.abs) THEN tagged ELSE Update(tagged, d0)
        ELSE dc

\* the re-check of example index merges d into disc
MergeRecheck(dc, d, i) ==
    LET d0 == Del(Del(d, "n"), "sum")
    IN  IF FloatGe(d0.abs, Threshold)
        THEN Update(dc, Update(d0, [error |-> StepName("diff", i),
                                    error_step |-> StepName("diff", i),
                                    success |-> 0]))
        ELSE dc

\* mutant: a failing stage never raises
StageRaisesNever(q) == FALSE

\* a failing stage raises when quiet is False, else it returns a dictionary
StageRaises(q) == ~q

\* ---------------------------------------------------- run_exporter, steps
Return(r) == pc' = "returned" /\ res' = r /\ UNCHANGED exc
Raise(type, step) == pc' = "raised" /\ exc' = [type |-> type, step |-> step] /\ UNCHANGED res
Goto(l) == pc' = l /\ UNCHANGED <<res, exc>>
params == <<quiet, exporter, cls_model, dynamic>>

\* model = cls_model(), inputs, dynamic_shapes, base
RunExporter ==
    /\ pc = "run_exporter"
    /\ base' = [inputs |-> "inputs", model |-> "model",
                dynamic_shapes |-> IF dynamic THEN "_dynamic" ELSE "None"]
    /\ Goto("export")
    /\ UNCHANGED <<unitVars, inputs, params, onx, disc, index, calls, scores, evalVars>>

\* the exporter variant is called on inputs[0]
Export ==
    /\ pc = "export"
    /\ \E out \in Outcomes, g \in Graphs :
        LET made == IF StartsWith(exporter, "export-")
                    THEN MakeExporterExport(exporter, out, quiet)
                    ELSE MakeExporterOnnx(exporter, out, quiet)
        IN  /\ calls' = IF KnownExporter(exporter) THEN Append(calls, Call("export", out))
                         ELSE calls
            /\ CASE made.kind = "raise" ->
                      Raise(made.type, made.step) /\ UNCHANGED <<base, onx>>
                 [] made.kind = "dict" ->
                      Return(made.dict) /\ UNCHANGED <<base, onx>>
                 [] OTHER ->
                      IF StartsWith(exporter, "export-")
                      THEN Goto("eager") /\ UNCHANGED <<base, onx>>
                      ELSE /\ onx' = g
                           /\ base' = Update(base, [onx |-> "onx", builder |-> BuilderOf(exporter)])
                           /\ Goto("inputs")
    /\ UNCHANGED <<unitVars, inputs, params, disc, index, scores, evalVars>>

\* the names of the graph against the inputs of the first example
AlignInputs ==
    /\ pc = "inputs"
    /\ LET names == onx.names
           flats == Flats(names, cls_model)
       IN  /\ calls' = IF names > cls_model.args THEN Append(calls, Call("flatten", Returns))
                        ELSE calls
           /\ IF InputMismatch(names, flats)
              THEN IF StageRaises(quiet)
                   THEN Raise("AssertionError", "inputs")
                   ELSE Return(Update(Failed("Input mismatch", "inputs"), base))
              ELSE Goto("ort-init")
    /\ UNCHANGED <<unitVars, inputs, params, base, onx, disc, index, scores, evalVars>>

\* onnxruntime.InferenceSession
OrtInit ==
    /\ pc = "ort-init"
    /\ \E out \in Outcomes :
        /\ calls' = Append(calls, Call("ort-init", out))
        /\ IF out.ok THEN Goto("eager")
           ELSE IF StageRaises(quiet) THEN Raise("Exception", "ort-init")
           ELSE Return(Update(Failed(out.msg, "ort-init"), base))
    /\ UNCHANGED <<unitVars, inputs, params, base, onx, disc, index, scores, evalVars>>

\* expected = model(*_clone(inputs[0])): the model works on a copy
Eager ==
    /\ pc = "eager"
    /\ \E out \in Outcomes :
        /\ calls' = Append(calls, Call("eager", out))
        /\ IF out.ok THEN Goto("run")
           ELSE IF StageRaises(quiet) THEN Raise("RuntimeError", "eager")
           ELSE Return(Update(Failed(out.msg, "eager"), base))
    /\ UNCHANGED <<unitVars, inputs, params, base, onx, disc, index, scores, evalVars>>

\* _inputs as the classes declare them: no example was modified
Pristine == [n \in {CaseNames[i] : i \in 1..Len(CaseNames)} |->
                [i \in 1..MaxExamples |-> FALSE]]

\* mod(*i) is handed the tensors of the example themselves: a module exported
\* from a model that modifies its inputs modifies them, an onnxruntime
\* session only reads the arrays _make_feeds builds from them
ModWrites(cls, graph) == cls.mutates /\ graph.none

\* _inputs once mod returned from the example i, counted from 0
AfterMod(inp, cls, graph, i) ==
    IF ModWrites(cls, graph) THEN [inp EXCEPT ![cls.name][i + 1] = TRUE] ELSE inp

\* what mod(*i) gives: _make_feeds then the session, or the exported module
ModOutcomes == IF onx.none \/ MakeFeeds(onx.names, cls_model).ok THEN Outcomes
               ELSE {[ok |-> FALSE, msg |-> "Unable to handle names"]}

\* got = mod(*inputs[0])
Run ==
    /\ pc = "run"
    /\ \E out \in ModOutcomes :
        /\ calls' = Append(calls, Call("run", out))
        /\ inputs' = IF out.ok THEN AfterMod(inputs, cls_model, onx, 0) ELSE inputs
        /\ IF out.ok
           THEN /\ base' = Update(base, [expected |-> "expected", obtained |-> "got"])
                /\ Goto("discrepancy")
           ELSE /\ UNCHANGED base
                /\ IF StageRaises(quiet) THEN Raise("RuntimeError", "run.0")
                   ELSE Return(Update(Failed(out.msg, "run.0"), base))
    /\ UNCHANGED <<unitVars, params, onx, disc, index, scores, evalVars>>

\* disc = max_diff(expected, got), its classification, the dynamic check
Discrepancy ==
    /\ pc = "discrepancy"
    /\ \/ /\ \E out \in Raises :
               /\ calls' = Append(calls, Call("discrepancy", out))
               /\ IF StageRaises(quiet) THEN Raise("Exception", "discrepancy")
                  ELSE Return(Update(Failed(out.msg, "discrepancy"), base))
          /\ UNCHANGED <<disc, index, scores>>
       \/ \E d \in MaxDiffResults :
            LET dc == Classify(d, cls_model, ModOf(exporter), onx)
            IN  /\ calls' = Append(calls, Call("discrepancy", Returns))
                /\ scores' = Append(scores, d)
                /\ disc' = dc
                /\ index' = 0
                /\ IF NoDynamicShape(dynamic, onx)
                   THEN Return(Failed("no dynamic shape", "dynamic"))
                   ELSE IF Recheck(dynamic, cls_model)
                        THEN Goto("recheck-eager")
                        ELSE Return(Update(dc, base))
    /\ UNCHANGED <<unitVars, inputs, params, base, onx, evalVars>>

\* expected = model(*_clone(i)) in the re-check: no handler around it
RecheckEager ==
    /\ pc = "recheck-eager"
    /\ \E out \in Outcomes :
        /\ calls' = Append(calls, Call(StepName("eager", index), out))
        /\ IF out.ok THEN Goto("recheck-run")
           ELSE Raise("Exception", StepName("eager", index))
    /\ UNCHANGED <<unitVars, inputs, params, base, onx, disc, index, scores, evalVars>>

\* got = mod(*i) in the re-check
RecheckRun ==
    /\ pc = "recheck-run"
    /\ \E out \in ModOutcomes :
        /\ calls' = Append(calls, Call(StepName("run", index), out))
        /\ inputs' = IF out.ok THEN AfterMod(inputs, cls_model, onx, index) ELSE inputs
        /\ IF out.ok THEN Goto("recheck-diff")
           ELSE IF StageRaises(quiet) THEN Raise("RuntimeError", StepName("run", index))
           ELSE Return(Failed(out.msg, StepName("run", index)))
    /\ UNCHANGED <<unitVars, params, base, onx, disc, index, scores, evalVars>>

\* d = max_diff(expected, got) in the re-check, merged into disc
RecheckDiff ==
    /\ pc = "recheck-diff"
    /\ \/ /\ \E out \in Raises :
               /\ calls' = Append(calls, Call(StepName("discrepancy", index), out))
               /\ IF StageRaises(quiet) THEN Raise("Exception", StepName("discrepancy", index))
                  ELSE Return(Failed(out.msg, StepName("discrepancy", index)))
          /\ UNCHANGED <<disc, index, scores>>
       \/ \E d \in MaxDiffResults :
            LET dc == MergeRecheck(disc, d, index)
            IN  /\ calls' = Append(calls, Call(StepName("discrepancy", index), Returns))
                /\ disc' = dc
                /\ scores' = Append(scores, d)
                /\ index' = index + 1
                /\ IF index + 1 < cls_model.inputs
                   THEN Goto("recheck-eager")
                   ELSE Return(Update(dc, base))
    /\ UNCHANGED <<unitVars, inputs, params, base, onx, evalVars>>

NextRun ==
    \/ RunExporter
    \/ Export
    \/ AlignInputs
    \/ OrtInit
    \/ Eager
    \/ Run
    \/ Discrepancy
    \/ RecheckEager
    \/ RecheckRun
    \/ RecheckDiff

\* the locals of run_exporter before the call
InitRun ==
    /\ base = EmptyDict
    /\ onx = NoOnx
    /\ disc = EmptyDict
    /\ index = 0
    /\ calls = <<>>
    /\ scores = <<>>
    /\ res = EmptyDict
    /\ exc = NoExc

\* no function is called on its own
NoUnit ==
    /\ sys = [stdout |-> "stdout", stderr |-> "stderr"]
    /\ fn = ""
    /\ arg = EmptyDict
    /\ ret = EmptyDict

\* run_exporter called directly
Init ==
    /\ NoUnit
    /\ inputs = Pristine
    /\ quiet \in BOOLEAN
    /\ exporter \in ExporterNames
    /\ cls_model \in CaseClasses
    /\ dynamic \in BOOLEAN
    /\ pc = "run_exporter"
    /\ InitRun
    /\ args = [exporters |-> <<>>, dynamic |-> <<>>, cases |-> <<>>]
    /\ loop = <<>>
    /\ k = 0
    /\ obs = <<>>

Spec == Init /\ [][NextRun]_vars

\* -------------------------------------------------------------- evaluation
\* the exporters evaluation is called with
EvalExporters == {"export-nostrict", "custom-strict"}

\* the position of a case name in the order of str
NameRank(n) == CHOOSE i \in 1..Len(CaseNames) : CaseNames[i] = n

\* sorted(cases.items()): the names are the keys of a dict, hence distinct
RECURSIVE Insert(_, _)
Insert(c, s) ==
    IF s = <<>> THEN <<c>>
    ELSE IF NameRank(c.name) < NameRank(Head(s).name) THEN <<c>> \o s
    ELSE <<Head(s)>> \o Insert(c, Tail(s))
\* mutant: the cases are taken in the order of the dict
SortedAsGiven(s) == s

RECURSIVE Sorted(_)
Sorted(s) == IF s = <<>> THEN <<>> ELSE Insert(Head(s), Sorted(Tail(s)))

\* itertools.chain
RECURSIVE Chain(_)
Chain(ss) == IF ss = <<>> THEN <<>> ELSE Head(ss) \o Chain(Tail(ss))

\* itertools.product(a, b, c)
Product(a, b, c) ==
    Chain([i \in 1..Len(a) |->
        Chain([j \in 1..Len(b) |->
            [m \in 1..Len(c) |-> [case |-> a[i], dyn |-> b[j], exporter |-> c[m]]]])])

\* int(dyn)
IntOf(b) == IF b THEN 1 ELSE 0

\* the keys evaluation adds to the dictionary of run_exporter
Identify(r, c) == Update(r, [name |-> c.case.name, dynamic |-> IntOf(c.dyn),
                             exporter |-> c.exporter])

NoClass == [name |-> "", inputs |-> 0, args |-> 0, leaves |-> 0, mutates |-> FALSE]

\* the locals of run_exporter are those of a new call
ResetRun ==
    /\ base' = EmptyDict
    /\ onx' = NoOnx
    /\ disc' = EmptyDict
    /\ index' = 0
    /\ calls' = <<>>
    /\ scores' = <<>>

\* sorted_cases, loop and the assertion that loop is not empty
Evaluation ==
    /\ pc = "evaluation"
    /\ loop' = Product(Sorted(args.cases), args.dynamic, args.exporters)
    /\ IF Len(loop') > 0 THEN Goto("loop") ELSE Raise("AssertionError", "evaluation")
    /\ k' = 1
    /\ obs' = <<>>
    /\ UNCHANGED <<unitVars, inputs, params, runVars, args>>

\* res = run_exporter(exporter, cls_model, dyn, quiet=quiet)
EvalCall ==
    /\ pc = "loop"
    /\ k <= Len(loop)
    /\ exporter' = loop[k].exporter
    /\ cls_model' = loop[k].case
    /\ dynamic' = loop[k].dyn
    /\ Goto("run_exporter")
    /\ UNCHANGED <<unitVars, inputs, quiet, runVars, evalVars>>

\* res.update(dict(name=..., dynamic=..., exporter=...)); obs.append(res)
EvalCollect ==
    /\ pc = "returned"
    /\ obs' = Append(obs, Identify(res, loop[k]))
    /\ k' = k + 1
    /\ pc' = "loop"
    /\ res' = EmptyDict
    /\ ResetRun
    /\ UNCHANGED <<unitVars, inputs, params, exc, args, loop>>

\* return obs
EvalReturn ==
    /\ pc = "loop"
    /\ k > Len(loop)
    /\ pc' = "done"
    /\ UNCHANGED <<unitVars, inputs, params, runVars, res, exc, evalVars>>

NextEval ==
    \/ Evaluation
    \/ EvalCall
    \/ EvalCollect
    \/ EvalReturn
    \/ NextRun

\* sequences of at most n elements of S
SeqUpTo(S, n) == UNION {[1..m -> S] : m \in 0..n}

\* the arguments of evaluation: cases is a dict, its keys are distinct
EvalArgs ==
    {a \in [exporters : SeqUpTo(EvalExporters, MaxLoop) \ {<<>>},
            dynamic : SeqUpTo(BOOLEAN, MaxLoop) \ {<<>>},
            cases : SeqUpTo(ModelCases, MaxLoop)] :
        /\ Len(a.exporters) * Len(a.dynamic) * Len(a.cases) <= MaxLoop
        /\ \A i, j \in 1..Len(a.cases) : i # j => a.cases[i].name # a.cases[j].name}

\* evaluation called
InitEval ==
    /\ NoUnit
    /\ inputs = Pristine
    /\ quiet \in BOOLEAN
    /\ args \in EvalArgs
    /\ exporter = ""
    /\ cls_model = NoClass
    /\ dynamic = FALSE
    /\ pc = "evaluation"
    /\ InitRun
    /\ loop = <<>>
    /\ k = 0
    /\ obs = <<>>

SpecEval == InitEval /\ [][NextEval]_vars

\* ------------------------------------------ functions called on their own
driverVars == <<quiet, exporter, cls_model, dynamic, pc, base, onx, disc, index,
                calls, scores, res, exc, args, loop, k, obs, inputs>>

\* neither run_exporter nor evaluation is running
NoDriver ==
    /\ quiet = FALSE
    /\ exporter = ""
    /\ cls_model = NoClass
    /\ dynamic = FALSE
    /\ pc = "idle"
    /\ InitRun
    /\ args = [exporters |-> <<>>, dynamic |-> <<>>, cases |-> <<>>]
    /\ loop = <<>>
    /\ k = 0
    /\ obs = <<>>
    /\ inputs = Pristine

\* the function is at statement l, its locals are r
At(l, r) == fn' = l /\ ret' = r

\* ------------------------------- _make_exporter_export, _make_exporter_onnx
\* greatest verbosity an exporter variant is called with
MaxVerbose == 2

\* if verbose >= 2: the export runs on the streams of the caller
Redirects(verbose) == verbose < 2

\* mutant: the streams come back only when the export returns
RestoredOnReturnOnly(target, saved, out) == IF out.ok THEN saved ELSE target

\* leaving the with block: the stream is the saved one again, whether the
\* block ends or raises
Restored(target, saved, out) == saved

\* the exporter variant is entered: unknown names raise at once
Variant ==
    /\ fn = "variant"
    /\ IF ~KnownExporter(arg.exporter)
       THEN At("raised", Update(ret, [type |-> "AssertionError"]))
       ELSE IF Redirects(arg.verbose) THEN At("redirect_stdout", ret)
       ELSE At("export", ret)
    /\ UNCHANGED <<driverVars, sys, arg>>

\* with contextlib.redirect_stdout(io.StringIO())
RedirectStdout ==
    /\ fn = "redirect_stdout"
    /\ sys' = [sys EXCEPT !.stdout = "StringIO"]
    /\ At("redirect_stderr", Update(ret, [stdout |-> sys.stdout]))
    /\ UNCHANGED <<driverVars, arg>>

\* contextlib.redirect_stderr(io.StringIO())
RedirectStderr ==
    /\ fn = "redirect_stderr"
    /\ sys' = [sys EXCEPT !.stderr = "StringIO"]
    /\ At("export", Update(ret, [stderr |-> sys.stderr]))
    /\ UNCHANGED <<driverVars, arg>>

\* the export itself: it returns or raises, on the streams it finds
ExportCall ==
    /\ fn = "export"
    /\ \E out \in Outcomes :
        At(IF Redirects(arg.verbose) THEN "exit_stderr" ELSE "except",
           Update(ret, [out |-> out, during |-> sys]))
    /\ UNCHANGED <<driverVars, sys, arg>>

\* the with block is left, redirect_stderr first
ExitStderr ==
    /\ fn = "exit_stderr"
    /\ sys' = [sys EXCEPT !.stderr = Restored(sys.stderr, ret.stderr, ret.out)]
    /\ At("exit_stdout", ret)
    /\ UNCHANGED <<driverVars, arg>>

\* then redirect_stdout
ExitStdout ==
    /\ fn = "exit_stdout"
    /\ sys' = [sys EXCEPT !.stdout = Restored(sys.stdout, ret.stdout, ret.out)]
    /\ At("except", ret)
    /\ UNCHANGED <<driverVars, arg>>

\* except Exception as e, or the artifact is returned
Except ==
    /\ fn = "except"
    /\ LET made == IF StartsWith(arg.exporter, "export-")
                   THEN MakeExporterExport(arg.exporter, ret.out, arg.quiet)
                   ELSE MakeExporterOnnx(arg.exporter, ret.out, arg.quiet)
       IN  IF made.kind = "raise" THEN At("raised", Update(ret, [type |-> made.type]))
           ELSE At("returned", Update(ret, [kind |-> made.kind]))
    /\ UNCHANGED <<driverVars, sys, arg>>

NextRedirect ==
    \/ Variant
    \/ RedirectStdout
    \/ RedirectStderr
    \/ ExportCall
    \/ ExitStderr
    \/ ExitStdout
    \/ Except

\* an exporter variant is called; sys.stdout and sys.stderr are the streams of
\* the process or those a caller has put in place
InitRedirect ==
    /\ NoDriver
    /\ sys \in [stdout : {"stdout", "capture"}, stderr : {"stderr", "capture"}]
    /\ fn = "variant"
    /\ arg \in [exporter : ExporterNames, verbose : 0..MaxVerbose, quiet : BOOLEAN]
    /\ ret = [before |-> sys]

SpecRedirect == InitRedirect /\ [][NextRedirect]_vars

\* ------------------------------------------- shape_helper: the containers
\* greatest size of an axis of an example tensor
MaxSize == 2

\* a node of a nested input: a leaf (a tensor with its shape, None, an int)
\* or a container with its items, the keys of a mapping being in insertion
\* order; the same fields describe a dynamic-shape specification, where the
\* node "axes" maps the axes in shape to the names in names
Node(tag, shape, keys, items, names) ==
    [tag |-> tag, shape |-> shape, keys |-> keys, items |-> items, names |-> names]
Tensor(shape) == Node("tensor", shape, <<>>, <<>>, <<>>)
NoneLeaf == Node("None", <<>>, <<>>, <<>>, <<>>)
IntLeaf == Node("int", <<>>, <<>>, <<>>, <<>>)
Hole == Node("*", <<>>, <<>>, <<>>, <<>>)
Tuple(items) == Node("tuple", <<>>, <<>>, items, <<>>)
List(items) == Node("list", <<>>, <<>>, items, <<>>)
Dict(keys, items) == Node("dict", <<>>, keys, items, <<>>)
\* a key/value cache: two parallel lists of per-layer tensors
Cache(key_cache, value_cache) ==
    Node("DynamicCache", <<>>, <<"key_cache", "value_cache">>,
         <<List(key_cache), List(value_cache)>>, <<>>)
Axes(axes, names) == Node("axes", axes, <<>>, <<>>, names)

IsLeaf(x) == x.tag \in {"tensor", "None", "int", "*"}

\* flatten(container): the leaves, sequences in order, mappings in the
\* insertion order of their keys, records field by field
RECURSIVE Flatten(_)
Flatten(x) ==
    IF IsLeaf(x) THEN <<x>>
    ELSE Chain([i \in 1..Len(x.items) |-> Flatten(x.items[i])])

\* the container with a hole at every leaf
RECURSIVE Skeleton(_)
Skeleton(x) ==
    IF IsLeaf(x) THEN Hole
    ELSE [x EXCEPT !.items = [i \in 1..Len(x.items) |-> Skeleton(x.items[i])]]

\* the number of leaves below the items of x that come before item i
LeavesBefore(x, i) == Len(Chain([j \in 1..(i - 1) |-> Flatten(x.items[j])]))

\* mutant: every item is given the first leaves
SliceFromStart(leaves, start, n) == SubSeq(leaves, 1, n)

\* the n leaves after the first start ones
Slice(leaves, start, n) == SubSeq(leaves, start + 1, start + n)

\* rebuild(skeleton, leaves): every hole takes the next leaf
RECURSIVE Rebuild(_, _)
Rebuild(s, leaves) ==
    IF IsLeaf(s) THEN leaves[1]
    ELSE [s EXCEPT !.items = [i \in 1..Len(s.items) |->
              Rebuild(s.items[i],
                      Slice(leaves, LeavesBefore(s, i), Len(Flatten(s.items[i]))))]]

\* the shapes of the example tensors: rank 0, 1 and 2
Shapes == {<<>>} \cup {<<a>> : a \in 1..MaxSize}
                 \cup {<<a, b>> : a \in 1..MaxSize, b \in 1..MaxSize}
Vectors == {Tensor(<<a>>) : a \in 1..MaxSize}
Leaves == {Tensor(s) : s \in Shapes} \cup {NoneLeaf, IntLeaf}
\* the containers nested in an example
Inner ==
    LET small == Vectors \cup {NoneLeaf}
    IN       {Tuple(<<x>>) : x \in small}
        \cup {List(<<x, y>>) : x \in small, y \in small}
        \cup {Dict(<<key>>, <<x>>) : key \in {"a", "b"}, x \in small}
        \cup {Cache(<<x>>, <<y>>) : x \in Vectors, y \in Vectors}
\* the example inputs: positional values or named values, the keys in either
\* insertion order
Containers ==
    LET items == Leaves \cup Inner
    IN       {Tuple(<<x>>) : x \in items}
        \cup {Tuple(<<x, y>>) : x \in items, y \in items}
        \cup {List(<<x>>) : x \in items}
        \cup {List(<<x, y>>) : x \in items, y \in items}
        \cup {Dict(<<key>>, <<x>>) : key \in {"a", "b"}, x \in items}
        \cup {Dict(keys, <<x, y>>) : keys \in {<<"a", "b">>, <<"b", "a">>},
                                     x \in items, y \in items}

\* -------------------------------- shape_helper: all_dynamic_shape_from_inputs
\* dim_prefix: a string, "d" by default, or a marker such as Dim.AUTO
DimPrefixes == {[str |-> TRUE, value |-> "d"], [str |-> TRUE, value |-> "dd"],
                [str |-> FALSE, value |-> "Dim.AUTO"],
                [str |-> FALSE, value |-> "Dim.DYNAMIC"]}

\* the number of tensors among leaves
NumTensors(leaves) == Cardinality({i \in 1..Len(leaves) : leaves[i].tag = "tensor"})

\* the number of tensors below the items of x that come before item i
TensorsBefore(x, i) == NumTensors(Chain([j \in 1..(i - 1) |-> Flatten(x.items[j])]))

\* mutant: the name does not tell the leaf
DimNameOfAxis(prefix, n, j) == prefix \o "_" \o ToString(j)

\* mutant: the leaves are counted from 1
DimNameFromOne(prefix, n, j) == prefix \o "_" \o ToString(n + 1) \o "_" \o ToString(j)

\* the name of axis j of the n-th tensor, both counted from 0
DimName(prefix, n, j) == prefix \o "_" \o ToString(n) \o "_" \o ToString(j)

\* mutant: a marker is used as a prefix
SlotNamed(dim_prefix, n, j) == DimName(dim_prefix.value, n, j)

\* what axis j of the n-th tensor is mapped to: a name made from the
\* prefix, or the marker itself
Slot(dim_prefix, n, j) ==
    IF dim_prefix.str THEN DimName(dim_prefix.value, n, j) ELSE dim_prefix.value

\* the n-th tensor becomes the mapping of every axis; a tensor of rank 0
\* gives the empty mapping
TensorToShape(t, dim_prefix, n) ==
    Axes([j \in 1..Len(t.shape) |-> j - 1],
         [j \in 1..Len(t.shape) |-> Slot(dim_prefix, n, j - 1)])

\* the walk: sequences and mappings keep their type and keys, a cache becomes
\* the mapping of its fields, the other leaves stay where they are; n tensors
\* were met before x
RECURSIVE AllDynamic(_, _, _)
AllDynamic(x, dim_prefix, n) ==
    IF x.tag = "tensor" THEN TensorToShape(x, dim_prefix, n)
    ELSE IF IsLeaf(x) THEN x
    ELSE [x EXCEPT !.tag = IF @ = "DynamicCache" THEN "dict" ELSE @,
                   !.items = [i \in 1..Len(x.items) |->
                       AllDynamic(x.items[i], dim_prefix, n + TensorsBefore(x, i))]]

all_dynamic_shape_from_inputs(inputs_, dim_prefix) == AllDynamic(inputs_, dim_prefix, 0)

\* ------------------------------ shape_helper: guess_dynamic_shapes_from_inputs
\* mutant: a mismatch is taken as nothing to say
SilentlyStatic == Axes(<<>>, <<>>)

\* the failure of a joint classification
StructuralError == Node("StructuralError", <<>>, <<>>, <<>>, <<>>)

\* a container of specifications, unless one of them failed
Collect(tag, keys, items) ==
    IF \E i \in 1..Len(items) : items[i].tag = "StructuralError" THEN StructuralError
    ELSE Node(tag, <<>>, keys, items, <<>>)

\* the keys a mapping may have, in alphabetical order
AllKeys == <<"a", "b">>

\* mutant: the named inputs are numbered in the order of insertion
InsertionOrder(keys) == keys

\* the order in which the named inputs are numbered: sorted by name
GuessOrder(keys) == SelectSeq(AllKeys, LAMBDA key : \E i \in 1..Len(keys) : keys[i] = key)

\* d[key]
ValueAt(d, key) == d.items[CHOOSE i \in 1..Len(d.keys) : d.keys[i] = key]

\* mutant: every axis is dynamic
DiffersAlways(sizes) == TRUE

\* an axis is dynamic when the examples do not all give it the same size
Differs(sizes) == Cardinality(sizes) > 1

\* the prefix for item i of a container: "I" for an input, "l" for an item of
\* a list, "o" for a field of a cache
Sub(auto, i, letter) ==
    [auto EXCEPT !.value = IF auto.str THEN @ \o "_" \o ToString(i) \o letter ELSE @]
Letter(tag) == IF tag = "DynamicCache" THEN "o" ELSE "l"

\* what the dynamic axis j is mapped to
GuessName(auto, j) == IF auto.str THEN auto.value \o ToString(j) ELSE auto.value

\* one tensor per example: the ranks must agree, and the mapping holds the
\* axes whose size differs
GuessDimensions(tensors, auto) ==
    IF Cardinality({Len(tensors[e].shape) : e \in 1..Len(tensors)}) # 1
    THEN StructuralError
    ELSE LET rk == Len(tensors[1].shape)
             dyn == SelectSeq([j \in 1..rk |-> j - 1],
                        LAMBDA j : Differs({tensors[e].shape[j + 1] : e \in 1..Len(tensors)}))
         IN  Axes(dyn, [i \in 1..Len(dyn) |-> GuessName(auto, dyn[i])])

\* one object per example: the types and the lengths must agree; a cache
\* gives the list of its fields
RECURSIVE GuessObject(_, _)
GuessObject(objs, auto) ==
    LET obj == objs[1]
        E == 1..Len(objs)
    IN  IF Cardinality({objs[e].tag : e \in E}) # 1 THEN StructuralError
        ELSE IF obj.tag = "tensor" THEN GuessDimensions(objs, auto)
        ELSE IF IsLeaf(obj) THEN obj
        ELSE IF Cardinality({Len(objs[e].items) : e \in E}) # 1 THEN StructuralError
        ELSE Collect("list", <<>>,
                 [i \in 1..Len(obj.items) |->
                     GuessObject([e \in E |-> objs[e].items[i]],
                                 Sub(auto, i - 1, Letter(obj.tag)))])

\* the examples are all positional or all named; the result is the pair of
\* the specification of the positional and of the named inputs
guess_dynamic_shapes_from_inputs(examples, auto) ==
    LET first == examples[1]
        E == 1..Len(examples)
    IN  IF Cardinality({examples[e].tag : e \in E}) # 1 THEN StructuralError
        ELSE IF first.tag = "tuple"
        THEN IF Cardinality({Len(examples[e].items) : e \in E}) # 1 THEN StructuralError
             ELSE Collect("tuple", <<>>,
                    <<Collect("tuple", <<>>,
                        [i \in 1..Len(first.items) |->
                            GuessObject([e \in E |-> examples[e].items[i]],
                                        Sub(auto, i - 1, "I"))]),
                      Dict(<<>>, <<>>)>>)
        ELSE IF Cardinality({{examples[e].keys[i] : i \in 1..Len(examples[e].keys)}
                                : e \in E}) # 1
             THEN StructuralError
             ELSE LET names == GuessOrder(first.keys)
                  IN  Collect("tuple", <<>>,
                        <<Tuple(<<>>),
                          Collect("dict", names,
                            [i \in 1..Len(names) |->
                                GuessObject([e \in E |-> ValueAt(examples[e], names[i])],
                                            Sub(auto, i - 1, "I"))])>>)

\* guessed = guess_dynamic_shapes_from_inputs(examples, auto=auto)
GuessDynamicShapes ==
    /\ fn = "call"
    /\ "examples" \in DOMAIN arg
    /\ LET ds == guess_dynamic_shapes_from_inputs(arg.examples, arg.auto)
       IN  At("guess_dynamic_shapes_from_inputs",
              [raised |-> ds.tag = "StructuralError", ds |-> ds])
    /\ UNCHANGED <<driverVars, sys, arg>>

\* the examples given to a joint classification
GuessExamples ==
    LET tensors == {Tensor(s) : s \in Shapes \ {<<>>}}
        nested == {List(<<x>>) : x \in Vectors}
        caches == {Cache(<<Tensor(<<a, b>>)>>, <<Tensor(<<a, b>>)>>) :
                       a \in 1..MaxSize, b \in 1..MaxSize}
        items == tensors \cup nested \cup caches
    IN       {Tuple(<<x>>) : x \in items}
        \cup {Dict(<<"a">>, <<x>>) : x \in items}
        \cup {Tuple(<<x, y>>) : x \in Vectors, y \in Vectors}
        \cup {Dict(keys, <<x, y>>) : keys \in {<<"a", "b">>, <<"b", "a">>},
                                     x \in Vectors, y \in Vectors \cup nested}

\* two examples, or three examples of one positional tensor
GuessArgs ==
    [examples : [1..2 -> GuessExamples]
                \cup [1..3 -> {Tuple(<<Tensor(s)>>) : s \in Shapes \ {<<>>}}],
     auto : {d \in DimPrefixes : d.value # "Dim.AUTO"}]

\* ds = all_dynamic_shape_from_inputs(inputs, dim_prefix=dim_prefix)
AllDynamicShape ==
    /\ fn = "call"
    /\ "inputs" \in DOMAIN arg
    /\ At("all_dynamic_shape_from_inputs",
          [ds |-> all_dynamic_shape_from_inputs(arg.inputs, arg.dim_prefix)])
    /\ UNCHANGED <<driverVars, sys, arg>>

\* leaves = flatten(inputs), with the skeleton of inputs
FlattenInputs ==
    /\ fn = "call"
    /\ "inputs" \in DOMAIN arg
    /\ At("flatten", [skeleton |-> Skeleton(arg.inputs), leaves |-> Flatten(arg.inputs)])
    /\ UNCHANGED <<driverVars, sys, arg>>

\* rebuild(skeleton, leaves)
RebuildInputs ==
    /\ fn = "flatten"
    /\ At("rebuild", Update(ret, [rebuilt |-> Rebuild(ret.skeleton, ret.leaves)]))
    /\ UNCHANGED <<driverVars, sys, arg>>

NextShape ==
    \/ AllDynamicShape
    \/ GuessDynamicShapes
    \/ FlattenInputs
    \/ RebuildInputs

\* one example input is given to the shape helper, or several to classify
\* jointly
InitShape ==
    /\ NoDriver
    /\ sys = [stdout |-> "stdout", stderr |-> "stderr"]
    /\ fn = "call"
    /\ arg \in [inputs : Containers, dim_prefix : DimPrefixes] \cup GuessArgs
    /\ ret = EmptyDict

SpecShape == InitShape /\ [][NextShape]_vars

\* ------------------------------------------ get_untrained_model_with_inputs
\* the tasks; "" is the default of the parameter task, "None" stands for None
Tasks == {"text-generation", "object-detection", "image-classification"}
TaskArgs == Tasks \cup {"", "None"}

\* load_architecture_task(): the architectures with a known task
ArchitectureTask == [LlamaForCausalLM |-> "text-generation",
                     YolosForObjectDetection |-> "object-detection"]
Architectures == DOMAIN ArchitectureTask \cup {"CustomModel"}

\* the configurations: a dictionary with or without "_class_name", or an
\* object whose attribute architectures is None or a list
NoArchs == [none |-> TRUE, list |-> <<>>]
Archs(list) == [none |-> FALSE, list |-> list]
Configs ==
         {[dict |-> TRUE, class_name |-> c, architectures |-> NoArchs] :
              c \in Architectures \cup {""}}
    \cup {[dict |-> FALSE, class_name |-> "", architectures |-> a] :
              a \in {NoArchs} \cup {Archs(<<x>>) : x \in Architectures}
                    \cup {Archs(<<x, y>>) : x \in Architectures, y \in Architectures}}

\* task_from_id(model_id): the task the hub gives, or an exception
TaskFromId == [ok : {TRUE}, task : Tasks] \cup {[ok |-> FALSE, task |-> ""]}

\* task_from_arch(arch, model_id=model_id): the stored task, or the one of
\* the model id when the architecture is not known
task_from_arch(arch, from_id) ==
    IF arch \notin DOMAIN ArchitectureTask THEN from_id
    ELSE [ok |-> TRUE, task |-> ArchitectureTask[arch]]

\* archs = [config["_class_name"]] or config.architectures
GetArchitectures ==
    /\ fn = "archs"
    /\ IF arg.config.dict
       THEN IF arg.config.class_name = ""
            THEN At("raised", [type |-> "AssertionError"])
            ELSE At("task", [archs |-> Archs(<<arg.config.class_name>>)])
       ELSE At("task", [archs |-> arg.config.architectures])
    /\ UNCHANGED <<driverVars, sys, arg>>

\* task = None, then task_from_id when there is no architecture, the
\* assertion, task_from_arch when task is still None
GetTask ==
    /\ fn = "task"
    /\ \E from_id \in TaskFromId :
        LET archs == ret.archs
            first == IF archs.none THEN from_id ELSE [ok |-> TRUE, task |-> "None"]
        IN  IF ~first.ok THEN At("raised", [type |-> "Exception"])
            ELSE IF first.task = "None" /\ (archs.none \/ Len(archs.list) # 1)
            THEN At("raised", [type |-> "AssertionError"])
            ELSE IF first.task # "None"
            THEN At("model", Update(ret, [task |-> first.task]))
            ELSE LET second == task_from_arch(archs.list[1], from_id)
                 IN  IF second.ok THEN At("model", Update(ret, [task |-> second.task]))
                     ELSE At("raised", [type |-> "Exception"])
    /\ UNCHANGED <<driverVars, sys, arg>>

\* the configuration is reduced, the model and its inputs are made for task,
\* and res["task"] = task
MakeModel ==
    /\ fn = "model"
    /\ \E out \in Outcomes :
        IF out.ok
        THEN At("returned", [res |-> [task |-> ret.task, model |-> "model",
                                      configuration |-> "config"]])
        ELSE At("raised", [type |-> "Exception"])
    /\ UNCHANGED <<driverVars, sys, arg>>

NextTask ==
    \/ GetArchitectures
    \/ GetTask
    \/ MakeModel

\* get_untrained_model_with_inputs(model_id, config=config, task=task)
InitTask ==
    /\ NoDriver
    /\ sys = [stdout |-> "stdout", stderr |-> "stderr"]
    /\ fn = "archs"
    /\ arg \in [task : TaskArgs, config : Configs]
    /\ ret = EmptyDict

SpecTask == InitTask /\ [][NextTask]_vars

\* ------------------------------------------- _flatten_inputs, _make_feeds
\* the values _flatten_inputs appends as they are: None, a tensor, a number
InputLeaf(x) == x.tag \in {"tensor", "None", "int"}

\* raise AssertionError / TypeError / RuntimeError
Error(type) == Node(type, <<>>, <<>>, <<>>, <<>>)
IsError(x) == x.tag \in {"AssertionError", "TypeError", "RuntimeError"}

\* mutant: the result is a list whatever the argument was
AlwaysList(x, items) == List(items)

\* return tuple(res) if isinstance(x, tuple) else res
SameType(x, items) == IF x.tag = "tuple" THEN Tuple(items) ELSE List(items)

\* _flatten_inputs(x): None for None, the leaves of a list or a tuple, an
\* AssertionError for anything else, at the top or below
RECURSIVE flatten_inputs(_)
flatten_inputs(x) ==
    IF x.tag = "None" THEN x
    ELSE IF x.tag \in {"list", "tuple"}
    THEN LET part(i) == IF InputLeaf(x.items[i]) THEN <<x.items[i]>>
                        ELSE LET sub == flatten_inputs(x.items[i])
                             IN  IF IsError(sub) THEN <<sub>> ELSE sub.items
             parts == [i \in 1..Len(x.items) |-> part(i)]
         IN  IF \E i \in 1..Len(x.items) :
                    ~InputLeaf(x.items[i]) /\ IsError(flatten_inputs(x.items[i]))
             THEN Error("AssertionError")
             ELSE SameType(x, Chain(parts))
    ELSE Error("AssertionError")

\* _to_numpy(x): an array for a tensor, an array of one element for a
\* number, item by item for a list or a tuple, a TypeError for anything else
RECURSIVE to_numpy(_)
to_numpy(x) ==
    IF x.tag = "tensor" THEN Node("array", x.shape, <<>>, <<>>, <<>>)
    ELSE IF x.tag = "int" THEN Node("array", <<1>>, <<>>, <<>>, <<>>)
    ELSE IF x.tag \in {"list", "tuple"}
    THEN LET items == [i \in 1..Len(x.items) |-> to_numpy(x.items[i])]
         IN  IF \E i \in 1..Len(items) : IsError(items[i])
             THEN Error("TypeError")
             ELSE [x EXCEPT !.items = items]
    ELSE Error("TypeError")

\* {k: _to_numpy(v) for k, v in zip(names, values)}: zip stops at the end of
\* the shorter sequence
Zip(names, values) ==
    LET n == IF Len(names) < Len(values) THEN Len(names) ELSE Len(values)
        items == [i \in 1..n |-> to_numpy(values[i])]
    IN  IF \E i \in 1..n : IsError(items[i])
        THEN Error("TypeError")
        ELSE Dict(SubSeq(names, 1, n), items)

\* _make_feeds(names, args), a standing for args: the feeds of the session,
\* or an error
make_feeds(names, a) ==
    IF Len(names) = Len(a.items) THEN Zip(names, a.items)
    ELSE IF Len(names) > Len(a.items)
    THEN LET flats == flatten_inputs(a)
         IN  IF IsError(flats) THEN flats ELSE Zip(names, flats.items)
    ELSE Error("RuntimeError")

\* the names of the inputs of a graph
GraphNames == <<"x", "y", "z", "u", "v">>
Names(n) == SubSeq(GraphNames, 1, n)

\* the values given to _flatten_inputs: the example inputs, sequences nested
\* three deep, and values that are not sequences
FlattenArgs ==
    LET small == Vectors \cup {NoneLeaf, IntLeaf}
    IN       Containers
        \cup {Tuple(<<List(<<Tuple(<<x>>), y>>)>>) : x \in small, y \in small}
        \cup {List(<<x, Tuple(<<y, List(<<x>>)>>)>>) : x \in small, y \in small}
        \cup Vectors \cup {NoneLeaf}

\* _flatten_inputs(x)
CallFlattenInputs ==
    /\ fn = "call"
    /\ "x" \in DOMAIN arg
    /\ At("flatten_inputs", [out |-> flatten_inputs(arg.x)])
    /\ UNCHANGED <<driverVars, sys, arg>>

\* _flatten_inputs applied to what it returned
CallFlattenAgain ==
    /\ fn = "flatten_inputs"
    /\ ~IsError(ret.out)
    /\ At("flatten_inputs again", Update(ret, [again |-> flatten_inputs(ret.out)]))
    /\ UNCHANGED <<driverVars, sys, arg>>

\* mod(*i): the example is unpacked into args, _make_feeds(names, args)
CallMakeFeeds ==
    /\ fn = "call"
    /\ "x" \in DOMAIN arg
    /\ arg.x.tag \in {"list", "tuple"}
    /\ At("make_feeds", [feeds |-> make_feeds(Names(arg.names), Tuple(arg.x.items))])
    /\ UNCHANGED <<driverVars, sys, arg>>

NextFeeds ==
    \/ CallFlattenInputs
    \/ CallFlattenAgain
    \/ CallMakeFeeds

\* an example input and the number of inputs a graph declares for it
InitFeeds ==
    /\ NoDriver
    /\ sys = [stdout |-> "stdout", stderr |-> "stderr"]
    /\ fn = "call"
    /\ arg \in [x : FlattenArgs, names : 1..(MaxNames + 1)]
    /\ ret = EmptyDict

SpecFeeds == InitFeeds /\ [][NextFeeds]_vars

\* ------------------------------------------- evaluation: the cases selected
\* greatest length of a requested name or pattern
MaxPattern == 3

\* strings are sequences of characters, so that re.match can read them
Three == <<"t", "h", "r", "e", "e">>
\* discover(): the names of the model cases, in the order of the module
Discovered == << <<"b", "a">>, <<"a", "b">>, <<"a", "a", "b">>, <<"b">> >>
DiscoveredNames == {Discovered[i] : i \in 1..Len(Discovered)}
\* the strings a caller lists: names, patterns, the keyword
Requested == UNION {[1..n -> {"a", "b", "*", "?"}] : n \in 1..MaxPattern} \cup {Three}

\* "*" in c or "?" in c
IsPattern(c) == \E i \in 1..Len(c) : c[i] \in {"*", "?"}

\* the index after the character at i and the repetition that follows it: a
\* "*" or a "?", itself followed or not by the "?" that makes it lazy
AtomEnd(p, i) ==
    IF i + 1 <= Len(p) /\ p[i + 1] \in {"*", "?"}
    THEN IF i + 2 <= Len(p) /\ p[i + 2] = "?" THEN i + 3 ELSE i + 2
    ELSE i + 1

\* re.compile(p) returns: every repetition follows a character (else
\* re.error: nothing to repeat, multiple repeat)
RECURSIVE CompilesFrom(_, _)
CompilesFrom(p, i) ==
    \/ i > Len(p)
    \/ /\ p[i] \notin {"*", "?"}
       /\ CompilesFrom(p, AtomEnd(p, i))
Compiles(p) == CompilesFrom(p, 1)

\* the pattern from index i matches s from index j; the end of s need not be
\* reached
RECURSIVE MatchFrom(_, _, _, _)
MatchFrom(p, i, s, j) ==
    IF i > Len(p) THEN TRUE
    ELSE LET n == AtomEnd(p, i)
             q == IF i + 1 <= Len(p) THEN p[i + 1] ELSE ""
             hit == j <= Len(s) /\ s[j] = p[i]
         IN  IF q = "*" THEN MatchFrom(p, n, s, j) \/ (hit /\ MatchFrom(p, i, s, j + 1))
             ELSE IF q = "?" THEN MatchFrom(p, n, s, j) \/ (hit /\ MatchFrom(p, n, s, j + 1))
             ELSE hit /\ MatchFrom(p, n, s, j + 1)
\* re.compile(p).match(s)
Match(p, s) == MatchFrom(p, 1, s, 1)

\* new_cases: the names listed and the discovered names a pattern matches
NewCases(items) ==
    {items[i] : i \in {j \in 1..Len(items) : ~IsPattern(items[j])}}
    \cup {n \in DiscoveredNames :
            \E i \in 1..Len(items) : IsPattern(items[i]) /\ Match(items[i], n)}

\* mutant: the names listed are the cases, discovered or not
KeepRequested(all, new) == new

\* {k: v for k, v in all_cases.items() if k in set(new_cases)}
Keep(all, new) == {n \in all : n \in new}

\* cases in ("three", ["three"])
IsThree(cases) == cases.kind \in {"str", "list"} /\ cases.items = <<Three>>

\* the cases evaluation runs, or the error of a pattern that does not compile
Cases(cases) ==
    IF IsThree(cases)
    THEN [type |-> "", names |-> {Discovered[i] : i \in 1..3}]
    ELSE IF \E i \in 1..Len(cases.items) :
                IsPattern(cases.items[i]) /\ ~Compiles(cases.items[i])
    THEN [type |-> "re.error", names |-> {}]
    ELSE [type |-> "", names |-> Keep(DiscoveredNames, NewCases(cases.items))]

\* the code point of a character
Ord(c) == CASE c = "*" -> 42 [] c = "?" -> 63 [] c = "a" -> 97 [] c = "b" -> 98 [] OTHER -> 0
\* s < t for two strings
RECURSIVE Before(_, _)
Before(s, t) ==
    IF s = <<>> THEN t # <<>>
    ELSE IF t = <<>> THEN FALSE
    ELSE IF Head(s) = Head(t) THEN Before(Tail(s), Tail(t))
    ELSE Ord(Head(s)) < Ord(Head(t))
\* sorted(cases.items())
SortedCases(names) ==
    [i \in 1..Cardinality(names) |->
        CHOOSE n \in names : Cardinality({m \in names : Before(m, n)}) = i - 1]

\* evaluation(exporters, dynamic, cases) up to the loop
CallEvaluation ==
    /\ fn = "call"
    /\ "cases" \in DOMAIN arg
    /\ LET sel == Cases(arg.cases)
           product == Product(SortedCases(sel.names), arg.dynamic, <<"export-strict">>)
       IN  IF sel.type # ""
           THEN At("raised", [type |-> sel.type, loop |-> <<>>, obs |-> <<>>])
           ELSE IF Len(product) = 0
           THEN At("raised", [type |-> "AssertionError", loop |-> <<>>, obs |-> <<>>])
           ELSE At("loop", [type |-> "", loop |-> product, obs |-> <<>>])
    /\ UNCHANGED <<driverVars, sys, arg>>

\* one turn of the loop: run_exporter in quiet mode, the record is named
CallRunExporter ==
    /\ fn = "loop"
    /\ Len(ret.obs) < Len(ret.loop)
    /\ \E success \in {0, 1} :
        LET c == ret.loop[Len(ret.obs) + 1]
        IN  At("loop", [ret EXCEPT !.obs = Append(@, [success |-> success, name |-> c.case,
                                            dynamic |-> IntOf(c.dyn),
                                            exporter |-> c.exporter])])
    /\ UNCHANGED <<driverVars, sys, arg>>

\* return obs
ReturnObs ==
    /\ fn = "loop"
    /\ Len(ret.obs) = Len(ret.loop)
    /\ At("returned", ret)
    /\ UNCHANGED <<driverVars, sys, arg>>

NextCases ==
    \/ CallEvaluation
    \/ CallRunExporter
    \/ ReturnObs

\* cases is a string, a list or a tuple of one or two strings
InitCases ==
    /\ NoDriver
    /\ sys = [stdout |-> "stdout", stderr |-> "stderr"]
    /\ fn = "call"
    /\ arg \in [cases : [kind : {"str"}, items : {<<c>> : c \in Requested}]
                        \cup [kind : {"list", "tuple"},
                              items : {<<c>> : c \in Requested}
                                      \cup {<<c, n>> : c \in Requested,
                                                       n \in DiscoveredNames \cup {<<"a">>}}],
                dynamic : {<<FALSE>>, <<TRUE>>}]
    /\ ret = EmptyDict

SpecCases == InitCases /\ [][NextCases]_vars

\* ------------------------ get_untrained_model_with_inputs: the configuration
\* _retrieve_cached_configurations(): the model ids with a cached configuration
CachedIds == {"arnir0/Tiny-LLM", "hustvl/yolos-tiny"}

\* get_cached_configuration(name, exc): the cached configuration, None, or
\* the assertion when the name is unknown and exc or NOHTTP is set
get_cached_configuration(name, e, nohttp) ==
    IF name \in CachedIds THEN [kind |-> "config"]
    ELSE IF e \/ nohttp THEN [kind |-> "raise"]
    ELSE [kind |-> "None"]

\* get_pretrained_config up to the access to the network
get_pretrained_config(model_id, use_preinstalled, use_only_preinstalled, nohttp) ==
    LET conf == IF use_preinstalled
                THEN get_cached_configuration(model_id, use_only_preinstalled, nohttp)
                ELSE [kind |-> "None"]
    IN  IF conf.kind # "None" THEN conf
        ELSE IF use_only_preinstalled THEN [kind |-> "raise"]
        ELSE [kind |-> "network"]

\* get_untrained_model_with_inputs: the assertion on the two flags, then the
\* configuration of the caller or the call of get_pretrained_config
CallGetUntrained ==
    /\ fn = "call"
    /\ "model_id" \in DOMAIN arg
    /\ IF arg.use_preinstalled /\ arg.use_only_preinstalled
       THEN At("raised", [type |-> "AssertionError", config |-> "", network |-> FALSE])
       ELSE IF arg.config # "None"
       THEN At("configured", [type |-> "", config |-> arg.config, network |-> FALSE])
       ELSE At("get_pretrained_config", [type |-> "", config |-> "", network |-> FALSE])
    /\ UNCHANGED <<driverVars, sys, arg>>

\* config = get_pretrained_config(model_id, ...), the cached part
CallGetPretrainedConfig ==
    /\ fn = "get_pretrained_config"
    /\ LET conf == get_pretrained_config(arg.model_id, arg.use_preinstalled,
                                         arg.use_only_preinstalled, arg.nohttp)
       IN  CASE conf.kind = "config" -> At("configured", [ret EXCEPT !.config = "cached"])
             [] conf.kind = "raise" -> At("raised", [ret EXCEPT !.type = "AssertionError"])
             [] OTHER -> At("network", ret)
    /\ UNCHANGED <<driverVars, sys, arg>>

\* transformers.AutoConfig.from_pretrained, hf_hub_download: the network
FromPretrained ==
    /\ fn = "network"
    /\ \E out \in Outcomes :
        IF out.ok
        THEN At("configured", [ret EXCEPT !.config = "downloaded", !.network = TRUE])
        ELSE At("raised", [ret EXCEPT !.type = "Exception", !.network = TRUE])
    /\ UNCHANGED <<driverVars, sys, arg>>

NextConfig ==
    \/ CallGetUntrained
    \/ CallGetPretrainedConfig
    \/ FromPretrained

\* the arguments of get_untrained_model_with_inputs and the variable NOHTTP
InitConfig ==
    /\ NoDriver
    /\ sys = [stdout |-> "stdout", stderr |-> "stderr"]
    /\ fn = "call"
    /\ arg \in [model_id : CachedIds \cup {"unknown/model"},
                config : {"None", "given"},
                use_preinstalled : BOOLEAN,
                use_only_preinstalled : BOOLEAN,
                subfolder : {"None", "unet"},
                nohttp : BOOLEAN]
    /\ ret = EmptyDict

SpecConfig == InitConfig /\ [][NextConfig]_vars

\* ------------------------------------------- filter_out_unexpected_inputs
\* greatest number of keys of a dictionary of inputs
MaxKeys == 2

\* the names inputs are given under, the parameters of forward
InputKeys == {"input_ids", "attention_mask", "pixel_values"}
\* a dictionary: its keys in insertion order, and a value for every key
Mapping(keys, values) == [dict |-> TRUE, keys |-> keys, values |-> values]
\* an entry that is not a dictionary, a tuple of positional inputs
Positional == [dict |-> FALSE, keys |-> <<>>, values |-> <<>>]
\* the dictionaries of inputs: distinct keys in any order
InputDicts(entry) ==
    {Mapping(keys, [i \in 1..Len(keys) |-> entry \o "[" \o keys[i] \o "]"]) :
        keys \in {s \in UNION {[1..n -> InputKeys] : n \in 0..MaxKeys} :
                    \A i, j \in 1..Len(s) : i # j => s[i] # s[j]}}

\* mutant: nothing is removed
KeptAll(kwargs, allowed) == [n \in 1..Len(kwargs.keys) |-> n]

\* the positions of kwargs whose key is a parameter of forward, in order
Kept(kwargs, allowed) ==
    LET kept == {i \in 1..Len(kwargs.keys) : kwargs.keys[i] \in allowed}
    IN  [n \in 1..Cardinality(kept) |->
            CHOOSE i \in kept : Cardinality({j \in kept : j < i}) = n - 1]

\* filter_out_unexpected_inputs(model, kwargs): a new dictionary
filter_out_unexpected_inputs(allowed, kwargs) ==
    LET at == Kept(kwargs, allowed)
    IN  Mapping([n \in 1..Len(at) |-> kwargs.keys[at[n]]],
                [n \in 1..Len(at) |-> kwargs.values[at[n]]])

\* the loop over res and res.update(update)
FilterInputs ==
    /\ fn = "call"
    /\ "res" \in DOMAIN arg
    /\ At("filtered",
          [key \in DOMAIN arg.res |->
              IF (StartsWith(key, "inputs") \/ StartsWith(key, "dynamic_shapes"))
                 /\ arg.res[key].dict
              THEN filter_out_unexpected_inputs(arg.forward, arg.res[key])
              ELSE arg.res[key]])
    /\ UNCHANGED <<driverVars, sys, arg>>

\* return res
ReturnRes ==
    /\ fn = "filtered"
    /\ At("returned", ret)
    /\ UNCHANGED <<driverVars, sys, arg>>

NextFilter ==
    \/ FilterInputs
    \/ ReturnRes

\* res as the input function of the task built it, forward as the model
\* declares it
InitFilter ==
    /\ NoDriver
    /\ sys = [stdout |-> "stdout", stderr |-> "stderr"]
    /\ fn = "call"
    /\ arg \in [res : [inputs : InputDicts("inputs") \cup {Positional},
                       inputs2 : InputDicts("inputs2") \cup {Positional},
                       dynamic_shapes : InputDicts("dynamic_shapes") \cup {Positional},
                       input_kwargs : {Mapping(<<"pixel_values">>, <<"input_kwargs[pixel_values]">>)}],
                forward : SUBSET InputKeys]
    /\ ret = EmptyDict

SpecFilter == InitFilter /\ [][NextFilter]_vars

\* ------------------------------------------------------------------ claims
Returned == pc = "returned"
Last(s) == s[Len(s)]
\* the steps <prefix>.<i> of the examples 0 .. n-1
Indexed(prefix, n) == {prefix \o "." \o ToString(i) : i \in 0..(n - 1)}
\* the absolute difference of the re-check of example i
RecheckedAbs(i) == scores[i + 2].abs
\* the examples the re-check has scored so far
Rechecked == 0..(Len(scores) - 2)
\* the re-check ran to its end
RecheckComplete == Len(scores) = cls_model.inputs + 1
CallNames == {calls[i].name : i \in 1..Len(calls)}
\* d.get(key, default)
Get(d, key, default) == IF key \in DOMAIN d THEN d[key] ELSE default
ErrorStep == Get(res, "error_step", "")

\* C1: in batch mode (quiet=True) evaluation never aborts on the failure of
\* one combination: whatever stage fails, no exception leaves evaluation.
C1_BatchNeverAborts == (quiet /\ Len(loop) > 0) => pc # "raised"

C3_ExportFailureRecord ==
    (quiet /\ calls # <<>> /\ calls[1].name = "export" /\ ~calls[1].ok) =>
        /\ Returned
        /\ res = [error |-> calls[1].msg, success |-> 0, error_step |-> "export"]
        /\ Len(calls) = 1
C3_Witness ==
    /\ Returned
    /\ quiet
    /\ exporter = "dynamo-ir"
    /\ calls # <<>>
    /\ ~calls[1].ok
    /\ ErrorStep = "export"

\* C4: a record returned after the primary discrepancy was computed has
\* success=1 if and only if the absolute difference it reports is < 0.1,
\* whatever that difference is, NaN included.
C4_SuccessIffBelowThreshold ==
    (Returned /\ "abs" \in DOMAIN res) =>
        (Get(res, "success", 2) = 1 <=> FloatLt(res.abs, Threshold))

\* C5: in every returned record, error is present iff success is 0 and
\* error_step is present iff success is 0.
C5_ErrorIffFailure ==
    Returned =>
        /\ ("error" \in DOMAIN res) <=> (Get(res, "success", 2) = 0)
        /\ ("error_step" \in DOMAIN res) <=> (Get(res, "success", 2) = 0)
C5_Witness ==
    /\ Returned
    /\ RecheckComplete
    /\ FloatLt(scores[1].abs, Threshold)
    /\ Get(res, "success", 2) = 0
    /\ Get(res, "error", "") = "diff.1"

\* C6: every returned error_step is one of export, inputs, ort-init, eager,
\* run.<i>, discrepancy, discrepancy.<i>, diff.<i>, dynamic, with i the
\* index of an example input of the case.
C6_ErrorStepEnumerated ==
    (Returned /\ "error_step" \in DOMAIN res) =>
        ErrorStep \in
            {"export", "inputs", "ort-init", "eager", "discrepancy", "dynamic"}
            \cup Indexed("run", cls_model.inputs)
            \cup Indexed("discrepancy", cls_model.inputs)
            \cup Indexed("diff", cls_model.inputs)
C6_Witness ==
    /\ Returned
    /\ cls_model.inputs > 1
    /\ ErrorStep = "discrepancy." \o ToString(cls_model.inputs - 1)

\* C7: for a to-onnx variant in quiet mode, when the number of graph input
\* names differs from the number of inputs of the first example (flattened
\* only when there are more names than top-level inputs), run_exporter
\* returns success=0 with error_step="inputs" and neither creates a session
\* nor runs the model or the graph.
C7_InputMismatchIsFatal ==
    LET flats == IF onx.names > cls_model.args THEN cls_model.leaves ELSE cls_model.args
    IN  (quiet /\ ~onx.none /\ pc # "inputs" /\ onx.names # flats) =>
            /\ Returned
            /\ Get(res, "success", 2) = 0
            /\ ErrorStep = "inputs"
            /\ CallNames \subseteq {"export", "flatten"}
C7_Witness ==
    /\ Returned
    /\ ErrorStep = "inputs"
    /\ onx.names > cls_model.args
    /\ onx.names < cls_model.leaves
    /\ "flatten" \in CallNames

\* C8: with dynamic=true and a serialized graph none of whose inputs has a
\* symbolic axis, run_exporter never returns success=1, and once the primary
\* discrepancy was computed it returns success=0 with error_step="dynamic".
C8_NoSuccessWithoutSymbolicAxis ==
    (Returned /\ dynamic /\ ~onx.none /\ ~onx.dims) =>
        /\ Get(res, "success", 2) = 0
        /\ scores # <<>> => (ErrorStep = "dynamic" /\ Get(res, "error", "") = "no dynamic shape")
C8_Witness ==
    /\ Returned
    /\ dynamic
    /\ ~onx.none
    /\ ~onx.dims
    /\ scores # <<>>
    /\ FloatLt(scores[1].abs, Threshold)
    /\ ErrorStep = "dynamic"

C10_FatalSteps ==
    {"export", "inputs", "ort-init", "eager", "discrepancy"}
    \cup Indexed("run", cls_model.inputs) \cup Indexed("discrepancy", cls_model.inputs)
C10_FailedStage ==
    /\ calls # <<>>
    /\ ~Last(calls).ok
    /\ Last(calls).name \in C10_FatalSteps \cup {"run"}
C10_InputsFailed ==
    /\ ~onx.none
    /\ pc # "inputs"
    /\ onx.names # (IF onx.names > cls_model.args THEN cls_model.leaves ELSE cls_model.args)
Example == IF pc \in {"recheck-eager", "recheck-run"} THEN index + 1 ELSE 1

\* C11: an in-place modification of the example inputs made during one
\* execution is never visible to a later one: whenever the exporter, the
\* eager model or the exported artifact is about to be handed an example of
\* the case, the tensors of that example are as the class declared them.
C11_MutationNeverVisible ==
    pc \in {"export", "eager", "run", "recheck-eager", "recheck-run"}
        => ~inputs[cls_model.name][Example]

\* the exporter variant returned or raised
Left == fn \in {"returned", "raised"}

\* C12: once an exporter variant has returned an artifact, returned a failure
\* record or raised, sys.stdout and sys.stderr are the streams they were
\* before the call; they are other streams only between entering and leaving
\* the with block around the export, which is entered only when verbose < 2,
\* and then the export runs on the redirected streams.
C12_StreamsRestored ==
    /\ Left => sys = ret.before
    /\ sys # ret.before =>
          /\ arg.verbose < 2
          /\ fn \in {"redirect_stderr", "export", "exit_stderr", "exit_stdout"}
    /\ (fn = "export" /\ arg.verbose < 2) => sys = [stdout |-> "StringIO", stderr |-> "StringIO"]
    /\ (fn = "export" /\ arg.verbose >= 2) => sys = ret.before

\* an export that raised under redirection, in a variant that then raised or
\* returned its failure record
C12_Witness ==
    /\ Left
    /\ KnownExporter(arg.exporter)
    /\ arg.verbose < 2
    /\ ~Get(ret, "out", Returns).ok
    /\ Get(ret, "during", sys) # ret.before

TensorsOf(x) == SelectSeq(Flatten(x), LAMBDA l : l.tag = "tensor")

\* the axis mappings of a dynamic-shape specification, in the order of the walk
RECURSIVE Mappings(_)
Mappings(ds) ==
    IF ds.tag = "axes" THEN <<ds>>
    ELSE Chain([i \in 1..Len(ds.items) |-> Mappings(ds.items[i])])

\* the containers of an input or of a specification: a hole stands for every
\* tensor and every axis mapping, a cache is seen as the mapping of its fields
RECURSIVE Erase(_)
Erase(x) ==
    IF x.tag \in {"tensor", "axes"} THEN Hole
    ELSE [x EXCEPT !.tag = IF @ = "DynamicCache" THEN "dict" ELSE @,
                   !.items = [i \in 1..Len(x.items) |-> Erase(x.items[i])]]

\* the axes 0..rank-1 of a tensor
AxesOf(t) == [j \in 1..Len(t.shape) |-> j - 1]

AllDynamicReturned == fn = "all_dynamic_shape_from_inputs"

\* C15: all_dynamic_shape_from_inputs with a string prefix p maps every axis j
\* of the i-th tensor of the input (in the order of flatten, from 0) to the
\* name p_i_j, whatever the sizes, and the result has the containers of the
\* input: tuples, lists, mappings with their keys, the fields of a cache.
C15_AllAxesNamed ==
    (AllDynamicReturned /\ arg.dim_prefix.str) =>
        LET ts == TensorsOf(arg.inputs)
            ms == Mappings(ret.ds)
        IN  /\ Len(ms) = Len(ts)
            /\ \A i \in 1..Len(ms) :
                /\ ms[i].shape = AxesOf(ts[i])
                /\ \A j \in 1..Len(ms[i].names) :
                     ms[i].names[j] = arg.dim_prefix.value \o "_" \o ToString(i - 1)
                                          \o "_" \o ToString(j - 1)
            /\ Erase(ret.ds) = Erase(arg.inputs)

\* named inputs, the second one a cache whose tensors are the second and the
\* third of the input, after the default prefix was applied
C15_Witness ==
    /\ AllDynamicReturned
    /\ arg.dim_prefix = [str |-> TRUE, value |-> "d"]
    /\ arg.inputs.tag = "dict"
    /\ Len(arg.inputs.items) = 2
    /\ arg.inputs.items[1] = Tensor(<<1, 2>>)
    /\ arg.inputs.items[2].tag = "DynamicCache"
    /\ Mappings(ret.ds)[3].names = <<"d_2_0">>

\* C16: with a marker in place of the prefix every axis of every tensor is
\* mapped to that marker, and no name is generated.
C16_PlaceholderEverywhere ==
    (AllDynamicReturned /\ ~arg.dim_prefix.str) =>
        LET ts == TensorsOf(arg.inputs)
            ms == Mappings(ret.ds)
        IN  /\ Len(ms) = Len(ts)
            /\ \A i \in 1..Len(ms) :
                /\ ms[i].shape = AxesOf(ts[i])
                /\ \A j \in 1..Len(ms[i].names) : ms[i].names[j] = arg.dim_prefix.value

\* two tensors of rank 2 given as a tuple, with Dim.AUTO
C16_Witness ==
    /\ AllDynamicReturned
    /\ arg.dim_prefix = [str |-> FALSE, value |-> "Dim.AUTO"]
    /\ arg.inputs = Tuple(<<Tensor(<<2, 2>>), Tensor(<<1, 2>>)>>)
    /\ Mappings(ret.ds)[2].names = <<"Dim.AUTO", "Dim.AUTO">>

GuessReturned == fn = "guess_dynamic_shapes_from_inputs"
\* the joint classification gave a specification
Guessed == GuessReturned /\ ~ret.raised

\* the names of the inputs of an example: its positions or its keys
InputNames(x) ==
    IF x.tag = "tuple" THEN {ToString(i - 1) : i \in 1..Len(x.items)}
    ELSE {x.keys[i] : i \in 1..Len(x.keys)}
\* the input of that name
InputAt(x, name) ==
    IF x.tag = "tuple" THEN x.items[CHOOSE i \in 1..Len(x.items) : ToString(i - 1) = name]
    ELSE ValueAt(x, name)
\* its specification in the pair a joint classification returns
GuessedAt(ds, x, name) ==
    IF x.tag = "tuple" THEN InputAt(ds.items[1], name) ELSE ValueAt(ds.items[2], name)

\* C13: in a joint classification an axis of a tensor is in the mapping of
\* that tensor, with a name, if and only if two of the examples give it
\* different sizes; an axis of the same size in every example is left out.
C13_NamedIffSizesDiffer ==
    Guessed =>
        \A name \in InputNames(arg.examples[1]) :
            LET ms == Mappings(GuessedAt(ret.ds, arg.examples[1], name))
                ts == [e \in 1..Len(arg.examples) |->
                          TensorsOf(InputAt(arg.examples[e], name))]
            IN  /\ Len(ms) = Len(ts[1])
                /\ \A i \in 1..Len(ms) :
                    \A j \in 1..Len(ts[1][i].shape) :
                        (\E h \in 1..Len(ms[i].shape) : ms[i].shape[h] = j - 1)
                        <=> \E e1, e2 \in 1..Len(ts) :
                                ts[e1][i].shape[j] # ts[e2][i].shape[j]

\* three examples of one tensor: the first axis has the same size in two of
\* them only, the second the same size in all
C13_Witness ==
    /\ Guessed
    /\ arg.auto = [str |-> TRUE, value |-> "dd"]
    /\ arg.examples = <<Tuple(<<Tensor(<<1, 2>>)>>), Tuple(<<Tensor(<<1, 2>>)>>),
                        Tuple(<<Tensor(<<2, 2>>)>>)>>
    /\ ret.ds.items[1].items[1] = Axes(<<0>>, <<"dd_0I0">>)

\* every name of a specification, in the order of the walk
NamesOf(ds) == Chain([i \in 1..Len(Mappings(ds)) |-> Mappings(ds)[i].names])

InsertedAt(x, key) == (CHOOSE i \in 1..Len(x.keys) : x.keys[i] = key) - 1
\* the position, from 0, of a key among the keys of a mapping once sorted
SortedAt(x, key) ==
    LET rank(c) == CHOOSE i \in 1..Len(AllKeys) : AllKeys[i] = c
    IN  Cardinality({i \in 1..Len(x.keys) : rank(x.keys[i]) < rank(key)})

\* the single-example path on named inputs: the keys of the result are those
\* of the input in their insertion order, and the tensors are numbered in
\* that order
SingleKeepsInsertionOrder ==
    (AllDynamicReturned /\ arg.dim_prefix.str /\ arg.inputs.tag = "dict") =>
        /\ ret.ds.keys = arg.inputs.keys
        /\ \A i \in 1..Len(arg.inputs.keys) :
            LET ms == Mappings(ret.ds.items[i])
            IN  \A m \in 1..Len(ms) : \A h \in 1..Len(ms[m].names) :
                    StartsWith(ms[m].names[h],
                        arg.dim_prefix.value \o "_"
                            \o ToString(TensorsBefore(arg.inputs, i) + m - 1) \o "_")

\* C17 as stated: in the joint classification too the names under a key carry
\* the position of that key in the insertion order of the examples.
C17_InsertionOrderEverywhere ==
    /\ SingleKeepsInsertionOrder
    /\ (Guessed /\ arg.auto.str /\ arg.examples[1].tag = "dict") =>
          \A i \in 1..Len(arg.examples[1].keys) :
              LET key == arg.examples[1].keys[i]
                  names == NamesOf(ValueAt(ret.ds.items[2], key))
              IN  \A h \in 1..Len(names) :
                      StartsWith(names[h], arg.auto.value \o "_"
                          \o ToString(InsertedAt(arg.examples[1], key)) \o "I")

\* C17, amended: the single-example path numbers the tensors in the insertion
\* order of the keys and keeps that order; the joint classification numbers
\* the named inputs by the position of their key among the sorted keys.
C17_SortedInGuess ==
    /\ SingleKeepsInsertionOrder
    /\ (Guessed /\ arg.auto.str /\ arg.examples[1].tag = "dict") =>
          \A i \in 1..Len(arg.examples[1].keys) :
              LET key == arg.examples[1].keys[i]
                  names == NamesOf(ValueAt(ret.ds.items[2], key))
              IN  \A h \in 1..Len(names) :
                      StartsWith(names[h], arg.auto.value \o "_"
                          \o ToString(SortedAt(arg.examples[1], key)) \o "I")

\* two examples whose keys were inserted as b then a, both inputs with an
\* axis that differs: a is numbered 0 and b is numbered 1
C17_Witness ==
    /\ Guessed
    /\ arg.auto = [str |-> TRUE, value |-> "dd"]
    /\ arg.examples = <<Dict(<<"b", "a">>, <<Tensor(<<1>>), List(<<Tensor(<<1>>)>>)>>),
                        Dict(<<"b", "a">>, <<Tensor(<<2>>), List(<<Tensor(<<2>>)>>)>>)>>
    /\ ValueAt(ret.ds.items[2], "a") = List(<<Axes(<<0>>, <<"dd_0I_0l0">>)>>)
    /\ ValueAt(ret.ds.items[2], "b") = Axes(<<0>>, <<"dd_1I0">>)

\* two examples have the same container shape: the same types, the same
\* lengths, the same keys, the same ranks
RECURSIVE SameShape(_, _)
SameShape(x, y) ==
    /\ x.tag = y.tag
    /\ x.tag = "tensor" => Len(x.shape) = Len(y.shape)
    /\ Len(x.items) = Len(y.items)
    /\ IF x.tag = "dict"
       THEN /\ InputNames(x) = InputNames(y)
            /\ \A key \in InputNames(x) : SameShape(ValueAt(x, key), ValueAt(y, key))
       ELSE \A i \in 1..Len(x.items) : SameShape(x.items[i], y.items[i])

\* C19: a joint classification of examples that differ in container shape,
\* in the number of leaves once flattened or in the rank of a tensor at the
\* same place raises StructuralError and gives no specification.
C19_MismatchRaises ==
    (GuessReturned /\ \E e1, e2 \in 1..Len(arg.examples) :
                         \/ ~SameShape(arg.examples[e1], arg.examples[e2])
                         \/ Len(Flatten(arg.examples[e1])) # Len(Flatten(arg.examples[e2])))
        => /\ ret.raised
           /\ Mappings(ret.ds) = <<>>

\* two examples of the same containers whose nested tensor has rank 1 in one
\* and rank 2 in the other
C19_Witness ==
    /\ GuessReturned
    /\ ret.raised
    /\ arg.examples[1] = Dict(<<"a">>, <<Tensor(<<2>>)>>)
    /\ arg.examples[2] = Dict(<<"a">>, <<Tensor(<<2, 2>>)>>)

\* C20: when the caller gives a task, get_untrained_model_with_inputs uses it
\* and the task of the returned dictionary is that task; the task is
\* determined from the architecture or the model id only when none is given.
C20_CallerTaskKept ==
    (fn = "returned" /\ "res" \in DOMAIN ret /\ arg.task \in Tasks)
        => ret.res.task = arg.task


\* the place of a call in the order of the stages of run_exporter; 7
\* stands for the calls of the loop over the examples
StageRank(n) ==
    CASE n = "export" -> 1
      [] n = "flatten" -> 2
      [] n = "ort-init" -> 3
      [] n = "eager" -> 4
      [] n = "run" -> 5
      [] n = "discrepancy" -> 6
      [] OTHER -> 7
\* the stage an error_step names: the artifact run on example 0 is run.0
StepRank(step) ==
    CASE step = "inputs" -> 2
      [] step = "run.0" -> 5
      [] OTHER -> StageRank(step)
\* the stage run_exporter stopped at, returned or raised
FailedAt == IF Returned THEN ErrorStep ELSE IF pc = "raised" THEN exc.step ELSE ""

\* C22: the stages of run_exporter run in the order export, input alignment,
\* session creation, eager run, artifact run, discrepancy, each at most once
\* and before any call of the loop over the examples; in quiet mode the
\* returned error_step is the first stage that failed (every call before it
\* succeeded) and no call of a later stage was made; the model is never run
\* eagerly when export, alignment or session creation failed.
C22_StagesInOrder ==
    /\ \A i, j \in 1..Len(calls) :
          i < j => \/ StageRank(calls[i].name) < StageRank(calls[j].name)
                   \/ StageRank(calls[j].name) = 7
    /\ (quiet /\ Returned /\ StepRank(ErrorStep) <= 6
          /\ \A i \in 1..Len(calls) : StageRank(calls[i].name) <= 6) =>
          /\ \A i \in 1..Len(calls) :
                /\ StageRank(calls[i].name) <= StepRank(ErrorStep)
                /\ i < Len(calls) => calls[i].ok
          /\ IF ErrorStep = "inputs"
             THEN calls # <<>> /\ Last(calls).ok
             ELSE /\ calls # <<>>
                  /\ ~Last(calls).ok
                  /\ StageRank(Last(calls).name) = StepRank(ErrorStep)
    /\ FailedAt \in {"export", "inputs", "ort-init"} => "eager" \notin CallNames
C22_Witness ==
    /\ Returned
    /\ quiet
    /\ ErrorStep = "ort-init"
    /\ Len(calls) = 2
    /\ calls[1].ok
    /\ ~calls[2].ok
    /\ "eager" \notin CallNames

\* C23: a primary discrepancy of 0.1 or more does not end run_exporter: when
\* dynamic was asked and the graph has no symbolic axis the record returned
\* is exactly {error: "no dynamic shape", success: 0, error_step: "dynamic"},
\* and otherwise the loop over the examples is entered when dynamic was asked
\* and the case has several examples.
C23_DiffZeroNotTerminal ==
    (Returned /\ Len(scores) >= 1 /\ FloatGe(scores[1].abs, Threshold)) =>
        /\ (dynamic /\ ~onx.none /\ ~onx.dims) =>
              /\ res = [error |-> "no dynamic shape", success |-> 0,
                        error_step |-> "dynamic"]
              /\ DOMAIN res \cap {"abs", "rel", "dnan"} = {}
        /\ (dynamic /\ (onx.none \/ onx.dims) /\ cls_model.inputs > 1) =>
              "eager.0" \in CallNames
C23_Witness ==
    /\ Returned
    /\ Len(scores) = 1
    /\ FloatGe(scores[1].abs, Threshold)
    /\ dynamic
    /\ ~onx.dims
    /\ cls_model.inputs > 1
    /\ ErrorStep = "dynamic"
C23_WitnessRecheck ==
    /\ Returned
    /\ Len(scores) >= 1
    /\ FloatGe(scores[1].abs, Threshold)
    /\ "eager.0" \in CallNames

\* the re-checked examples whose absolute difference is 0.1 or more
Failing == {i \in Rechecked : FloatGe(RecheckedAbs(i), Threshold)}
Greatest(S) == CHOOSE m \in S : \A j \in S : j <= m

\* C24: in the loop over the examples success never goes back from 0 to 1;
\* when the loop ends without a fatal failure, error_step is diff.<m> for
\* the greatest re-checked index m whose absolute difference is 0.1 or more
\* and abs, rel are those of example m; when no re-checked example fails,
\* abs, rel and the classification are those of the primary run.
C24_LastFailureWins ==
    /\ (Len(scores) >= 2 /\ (FloatGe(scores[1].abs, Threshold) \/ Failing # {})) =>
          Get(disc, "success", 1) = 0
    /\ (Returned /\ RecheckComplete) =>
          IF Failing # {}
          THEN /\ ErrorStep = "diff." \o ToString(Greatest(Failing))
               /\ res.abs = scores[Greatest(Failing) + 2].abs
               /\ res.rel = scores[Greatest(Failing) + 2].rel
               /\ res.success = 0
          ELSE /\ res.abs = scores[1].abs
               /\ res.rel = scores[1].rel
               /\ ErrorStep = IF FloatGe(scores[1].abs, Threshold) THEN "diff.0" ELSE ""
               /\ res.success = IF FloatGe(scores[1].abs, Threshold) THEN 0 ELSE 1
C24_Witness ==
    /\ Returned
    /\ RecheckComplete
    /\ Failing = {0, 1}
    /\ RecheckedAbs(0) = Float(250)
    /\ RecheckedAbs(1) = Float(100)
    /\ res.abs = Float(100)
    /\ ErrorStep = "diff.1"

\* C25: with dynamic false the exporter is given dynamic_shapes None, the
\* model and the artifact run once, on the first example, whatever the
\* number of examples of the case, and the symbolic-axis check is not made.
C25_StaticRunsFirstExampleOnly ==
    ~dynamic =>
        /\ Get(base, "dynamic_shapes", "None") = "None"
        /\ CallNames \subseteq {"export", "flatten", "ort-init", "eager", "run", "discrepancy"}
        /\ Cardinality({i \in 1..Len(calls) : calls[i].name = "eager"}) <= 1
        /\ Cardinality({i \in 1..Len(calls) : calls[i].name = "run"}) <= 1
        /\ Len(scores) <= 1
        /\ FailedAt # "dynamic"
C25_Witness ==
    /\ Returned
    /\ ~dynamic
    /\ cls_model.inputs = 2
    /\ ~onx.none
    /\ ~onx.dims
    /\ Get(res, "success", 0) = 1
    /\ "run" \in CallNames


\* the feeds _make_feeds returned, the leaves of the example it was given
Feeds == ret.feeds
FedLeaves == Flatten(Tuple(arg.x.items))

\* C26: whenever _make_feeds returns, the feeds have one entry for each
\* declared name of the graph and the leaves of the example are bound one
\* to one to the names, in order; no name and no leaf is dropped.
C26_FeedsPairNamesAndLeaves ==
    (fn = "make_feeds" /\ ~IsError(Feeds)) =>
        /\ Feeds.keys = Names(arg.names)
        /\ Len(FedLeaves) = arg.names
        /\ \A i \in 1..Len(Feeds.items) : Feeds.items[i] = to_numpy(FedLeaves[i])

\* only lists and tuples, nested to any depth, over leaves
RECURSIVE OnlySequences(_)
OnlySequences(x) ==
    \/ InputLeaf(x)
    \/ /\ x.tag \in {"list", "tuple"}
       /\ \A i \in 1..Len(x.items) : OnlySequences(x.items[i])

\* C27: _flatten_inputs of a list or a tuple nested to any depth returns a
\* sequence of the type of the argument whose elements are its leaves, left
\* to right and depth first, none of them a sequence; flattening the result
\* again gives an equal sequence; a value that is neither None nor a list or
\* a tuple raises an AssertionError.
C27_FlattenInputs ==
    /\ (fn = "flatten_inputs" /\ arg.x.tag \in {"list", "tuple"} /\ OnlySequences(arg.x)) =>
          /\ ret.out.tag = arg.x.tag
          /\ ret.out.items = Flatten(arg.x)
          /\ \A i \in 1..Len(ret.out.items) : InputLeaf(ret.out.items[i])
    /\ (fn = "flatten_inputs" /\ arg.x.tag \notin {"None", "list", "tuple"}) =>
          ret.out.tag = "AssertionError"
    /\ fn = "flatten_inputs again" => ret.again = ret.out
C27_Witness ==
    /\ fn = "flatten_inputs again"
    /\ arg.x.tag = "tuple"
    /\ \E i \in 1..Len(arg.x.items) :
          /\ arg.x.items[i].tag = "list"
          /\ \E j \in 1..Len(arg.x.items[i].items) : arg.x.items[i].items[j].tag = "tuple"
    /\ ret.out.tag = "tuple"
    /\ Len(ret.out.items) = 2
C27_WitnessRaises ==
    /\ fn = "flatten_inputs"
    /\ arg.x.tag = "dict"
    /\ ret.out.tag = "AssertionError"


\* the names of the records evaluation returned
ObsNames == {ret.obs[i].name : i \in 1..Len(ret.obs)}
\* the discovered cases listed literally or matched from their start by a
\* listed pattern
Listed ==
    {n \in DiscoveredNames :
        \E i \in 1..Len(arg.cases.items) :
            LET c == arg.cases.items[i]
            IN  IF IsPattern(c) THEN Compiles(c) /\ Match(c, n) ELSE c = n}
AllCompile ==
    \A i \in 1..Len(arg.cases.items) :
        IsPattern(arg.cases.items[i]) => Compiles(arg.cases.items[i])
\* the statement for the cases evaluation was given
SelectedAre(names) ==
    /\ fn = "returned" => ObsNames = names
    /\ fn = "loop" => /\ ObsNames \subseteq names
                      /\ names # {}
    /\ (fn = "raised" /\ AllCompile) =>
          /\ names = {}
          /\ ret.type = "AssertionError"
          /\ ret.obs = <<>>
    /\ (fn \in {"loop", "returned"} /\ AllCompile) => names # {}

\* C28 as stated: with cases given as names or patterns, the names in the
\* result of evaluation are the discovered cases listed literally or matched
\* from their start by a listed pattern; a listed name that is not
\* discovered gives no record and no error; an empty selection fails the
\* assertion before any exporter runs.
C28_SelectedByNameOrPattern == "cases" \in DOMAIN arg => SelectedAre(Listed)

\* C28 amended: the same, except that cases = "three" or ["three"] selects
\* the first three discovered cases.
C28_SelectedUnlessThree ==
    "cases" \in DOMAIN arg =>
        SelectedAre(IF IsThree(arg.cases)
                    THEN {Discovered[1], Discovered[2], Discovered[3]}
                    ELSE Listed)
C28_Witness ==
    /\ fn = "returned"
    /\ Len(arg.cases.items) = 2
    /\ IsPattern(arg.cases.items[1])
    /\ arg.cases.items[2] = <<"a">>
    /\ ObsNames = {<<"a", "b">>, <<"a", "a", "b">>}
C28_WitnessThree ==
    /\ fn = "returned"
    /\ IsThree(arg.cases)
    /\ Cardinality(ObsNames) = 3
C28_WitnessEmpty ==
    /\ fn = "raised"
    /\ arg.cases.items = << <<"a">> >>
    /\ ret.type = "AssertionError"


\* C21: with use_only_preinstalled=True and no configuration given,
\* get_untrained_model_with_inputs takes the cached configuration of a cached
\* model_id without any access to the network, and raises only when
\* model_id is not cached.
C21_OnlyPreinstalled ==
    (fn \in {"configured", "raised"} /\ "model_id" \in DOMAIN arg
        /\ arg.use_only_preinstalled /\ arg.config = "None") =>
        /\ ~ret.network
        /\ IF arg.model_id \in CachedIds
           THEN fn = "configured" /\ ret.config = "cached"
           ELSE fn = "raised"

\* the keys of an entry of res
KeySet(m) == {m.keys[i] : i \in 1..Len(m.keys)}
\* s is t without some of its elements, the others in the order of t
IsRestriction(m, of, allowed) ==
    LET at == {i \in 1..Len(of.keys) : of.keys[i] \in allowed}
    IN  /\ m.dict
        /\ KeySet(m) = KeySet(of) \cap allowed
        /\ Len(m.keys) = Cardinality(at)
        /\ \A i, j \in 1..Len(m.keys) :
              i < j => \E a, b \in at : /\ a < b
                                        /\ of.keys[a] = m.keys[i]
                                        /\ of.keys[b] = m.keys[j]
        /\ \A i \in 1..Len(m.keys) :
              \E a \in at : of.keys[a] = m.keys[i] /\ of.values[a] = m.values[i]

\* C29: every dictionary of res whose key starts with inputs or
\* dynamic_shapes is replaced by its restriction to the parameters of
\* forward, values and relative order of the keys unchanged, the other
\* entries are left as they are; inputs, inputs2 and dynamic_shapes have
\* equal key sets after the filter when they had before.
C29_FilterRestricts ==
    (fn \in {"filtered", "returned"} /\ "res" \in DOMAIN arg) =>
        /\ \A key \in {"inputs", "inputs2", "dynamic_shapes"} :
              IF arg.res[key].dict
              THEN IsRestriction(ret[key], arg.res[key], arg.forward)
              ELSE ret[key] = arg.res[key]
        /\ ret.input_kwargs = arg.res.input_kwargs
        /\ (/\ \A key \in {"inputs", "inputs2", "dynamic_shapes"} : arg.res[key].dict
            /\ KeySet(arg.res.inputs) = KeySet(arg.res.inputs2)
            /\ KeySet(arg.res.inputs) = KeySet(arg.res.dynamic_shapes)) =>
              /\ KeySet(ret.inputs) = KeySet(ret.inputs2)
              /\ KeySet(ret.inputs) = KeySet(ret.dynamic_shapes)
C29_Witness ==
    /\ fn = "returned"
    /\ "res" \in DOMAIN arg
    /\ arg.res.inputs.keys = <<"pixel_values", "input_ids">>
    /\ arg.res.inputs2.keys = <<"input_ids", "pixel_values">>
    /\ arg.res.dynamic_shapes.keys = <<"pixel_values", "input_ids">>
    /\ arg.forward = {"pixel_values", "attention_mask"}
    /\ ret.inputs.keys = <<"pixel_values">>
    /\ ret.dynamic_shapes.keys = <<"pixel_values">>
====
